---- MODULE Spec2Model ----
(***************************************************************************)
(* A model of the back-tester's data store: the bulk loader                *)
(* (data_storage/__init__.py), the date adjustment of resample_data        *)
(* (data_storage/metadata_manupulator/__init__.py), the expiry utilities   *)
(* and the DataAccessor over MetaDataV1 (test.py), the server's start-up   *)
(* (start.py) and the time conversions (commons/utils.py).                 *)
(*                                                                         *)
(* Dates are the program's YYMMDD integers (180101 is 1 Jan 2018); a       *)
(* datetime is its proleptic Gregorian ordinal (date.toordinal()), so      *)
(* strptime / strftime are real conversions and timedelta(days=n) is       *)
(* integer addition on ordinals.                                           *)
(***************************************************************************)
EXTENDS Integers, Sequences, FiniteSets, TLC

\* Python's None where the value would otherwise be a number (a day, a date, a
\* strike): no such number is negative
None == -1

(***************************************************************************)
(* Calendar: what datetime and calendar.monthrange compute.                *)
(***************************************************************************)
IsLeap(y) == (y % 4 = 0 /\ y % 100 # 0) \/ y % 400 = 0

\* calendar.monthrange(year, month)[1]
DaysInMonth(y, m) ==
    IF m = 2 THEN (IF IsLeap(y) THEN 29 ELSE 28)
    ELSE IF m \in {4, 6, 9, 11} THEN 30 ELSE 31

DaysBeforeYear(y) ==
    LET p == y - 1 IN p * 365 + (p \div 4) - (p \div 100) + (p \div 400)

RECURSIVE DaysBeforeMonth(_, _)
DaysBeforeMonth(y, m) ==
    IF m <= 1 THEN 0 ELSE DaysBeforeMonth(y, m - 1) + DaysInMonth(y, m - 1)

\* datetime(year, month, day), as an ordinal
ToOrdinal(y, m, d) == DaysBeforeYear(y) + DaysBeforeMonth(y, m) + d

\* datetime.weekday(): Monday is 0, Thursday is 3
Weekday(ord) == (ord + 6) % 7

YearOfOrdinal(ord) ==
    CHOOSE y \in (ord \div 366)..((ord \div 365) + 1) :
        DaysBeforeYear(y) < ord /\ ord <= DaysBeforeYear(y + 1)

MonthOfOrdinal(ord) ==
    LET y == YearOfOrdinal(ord)
        r == ord - DaysBeforeYear(y)
    IN  CHOOSE m \in 1..12 :
            DaysBeforeMonth(y, m) < r /\ r <= DaysBeforeMonth(y, m) + DaysInMonth(y, m)

DayOfOrdinal(ord) ==
    LET y == YearOfOrdinal(ord)
    IN  ord - DaysBeforeYear(y) - DaysBeforeMonth(y, MonthOfOrdinal(ord))

\* int(dt.strftime("%y%m%d"))
Strftime(ord) ==
    (YearOfOrdinal(ord) % 100) * 10000 + MonthOfOrdinal(ord) * 100 + DayOfOrdinal(ord)

\* The fields the regular expression of "%y%m%d" takes from str(date), for a date
\* of five or six digits. %y is two digits, %m is 1[0-2]|0[1-9]|[1-9] and %d is
\* 3[01]|[12]\d|0[1-9]|[1-9], tried in that order. Six digits split two by two.
\* Of five digits yyabc the month is ab and the day c when that matches, else the
\* month is a and the day bc; found is FALSE when nothing matches the whole string.
StrptimeFields(date) ==
    IF date >= 100000
    THEN [found |-> TRUE, yy |-> date \div 10000,
          month |-> (date \div 100) % 100, day |-> date % 100]
    ELSE LET a == (date \div 100) % 10
             b == (date \div 10) % 10
             c == date % 10
         IN  IF (10 * a + b) \in 1..12 /\ c \in 1..9
             THEN [found |-> TRUE, yy |-> date \div 1000, month |-> 10 * a + b, day |-> c]
             ELSE IF a \in 1..9 /\ (10 * b + c) \in 1..31
             THEN [found |-> TRUE, yy |-> date \div 1000, month |-> a, day |-> 10 * b + c]
             ELSE [found |-> FALSE, yy |-> date \div 1000, month |-> 0, day |-> 0]

\* %y maps 00..68 to 2000..2068 and 69..99 to 1969..1999
StrptimeYear(yy) == IF yy < 69 THEN 2000 + yy ELSE 1900 + yy

\* datetime.strptime(str(date), "%y%m%d") raises ValueError: the string does not
\* match, or the day is out of range for the month
StrptimeRaises(date) ==
    LET f == StrptimeFields(date)
    IN  \/ ~f.found
        \/ f.month \notin 1..12
        \/ f.day \notin 1..DaysInMonth(StrptimeYear(f.yy), f.month)

\* datetime.strptime(str(date), "%y%m%d") when it does not raise
Strptime(date) ==
    LET f == StrptimeFields(date)
    IN  ToOrdinal(StrptimeYear(f.yy), f.month, f.day)

\* A six-digit YYMMDD integer naming a real calendar day of 2010..2068
ValidDate(date) ==
    LET yy == date \div 10000
        mm == (date \div 100) % 100
        dd == date % 100
    IN  /\ yy \in 10..68
        /\ mm \in 1..12
        /\ dd \in 1..DaysInMonth(2000 + yy, mm)

(***************************************************************************)
(* Expiry utilities (test.py).                                             *)
(***************************************************************************)
\* year = int("20" + date_str[:2]); month = int(date_str[2:4]); day = int(date_str[4:6])
ParseYear(date) == 2000 + (date \div 10000)
ParseMonth(date) == (date \div 100) % 100
ParseDay(date) == date % 100

\* for d in range(last_day, 0, -1): if datetime(year, month, d).weekday() == 3
RECURSIVE LastThursdayMutant(_, _, _)
LastThursdayMutant(y, m, d) ==
    IF d < 1 THEN None
    ELSE IF Weekday(ToOrdinal(y, m, d)) = 3 /\ d < DaysInMonth(y, m) THEN d
    ELSE LastThursdayMutant(y, m, d - 1)

RECURSIVE LastThursdayFrom(_, _, _)
LastThursdayFrom(y, m, d) ==
    IF d < 1 THEN None
    ELSE IF Weekday(ToOrdinal(y, m, d)) = 3 THEN d
    ELSE LastThursdayFrom(y, m, d - 1)

detect_expiry_type(expiry_date) ==
    LET year == ParseYear(expiry_date)
        month == ParseMonth(expiry_date)
        day == ParseDay(expiry_date)
        last_day == DaysInMonth(year, month)
        last_thursday == LastThursdayFrom(year, month, last_day)
    IN  IF day = last_thursday THEN "MONTHLY" ELSE "WEEKLY"

get_weekly_expiry(date) ==
    LET current_date == ToOrdinal(ParseYear(date), ParseMonth(date), ParseDay(date))
        d0 == 3 - Weekday(current_date)
        days_ahead == IF d0 <= 0 THEN d0 + 7 ELSE d0
    IN  Strftime(current_date + days_ahead)

get_monthly_expiry(date) ==
    LET year == ParseYear(date)
        month == ParseMonth(date)
        d == LastThursdayFrom(year, month, DaysInMonth(year, month))
    IN  IF d = None THEN None ELSE Strftime(ToOrdinal(year, month, d))

(***************************************************************************)
(* State.                                                                  *)
(***************************************************************************)
VARIABLES
    quote_data,        \* meta_data.quote_data: slot -> Quote, a slot being the path
                       \* <<date, option_type, underlying, symbol, timeframe, time>>
    available_dates,   \* meta_data.available_dates: underlying -> set of dates
    contracts,         \* meta_data.contracts: <<date, time, underlying, option_type,
                       \* expiry, strike>> -> Contract
    loader,            \* where load_data_from_dataset stands in its loops
    n_rows,            \* rows read so far
    ingested,          \* history: the (key, quote) pair of every row read whose key
                       \* had not been read before
    last_row,          \* history: whether the last row read found a quote at its
                       \* key, and the error it raised
    op,                \* the expiry utility last called, with its argument and result
    arg,
    result,
    resample,          \* resample_data: its arguments, its locals and where it stands
    options_data,      \* MetaDataV1.options_data: path -> Quote, a path being
                       \* <<underlying, expiry_type, expiry, strike, option_type,
                       \*   timeframe, date, time>>
    available_strikes, \* MetaDataV1.available_strikes: <<underlying, date,
                       \* expiry_type, expiry>> -> set of strikes
    expiry_type_map,   \* MetaDataV1.expiry_type_map: <<underlying, expiry>> -> type
    n_quotes,          \* option quotes put into MetaDataV1 so far
    atm,               \* the last get_atm_strike call: its arguments and result
    query,             \* the accessor's other getters: the call made, its arguments
                       \* and what it returned
    indicators,        \* meta_data.indicators: the sma values held, and (history)
                       \* the sma computations run so far
    server,            \* start.py: whether app.run has been reached
    readers,           \* the threads that serve requests: where each stands and
                       \* what it has got
    conversion         \* a run of hms_to_seconds and seconds_to_hms: the value it
                       \* started from, where it stands and what each call returned

loaderVars == <<quote_data, available_dates, contracts, loader, n_rows, ingested, last_row>>
expiryVars == <<op, arg, result>>
chainVars == <<options_data, available_strikes, expiry_type_map, n_quotes, atm, query>>
serviceVars == <<indicators, server, readers, conversion>>
vars == <<quote_data, available_dates, contracts, loader, n_rows, ingested, last_row,
          op, arg, result, resample, options_data, available_strikes,
          expiry_type_map, n_quotes, atm, query, indicators, server, readers,
          conversion>>

EmptyMap == [x \in {} |-> {}]

(***************************************************************************)
(* The bulk loader (data_storage/__init__.py).                             *)
(***************************************************************************)
MaxRows == 2

\* the directories of feather_dataset named in load.csv
Underlyings == {"nifty", "banknifty"}
\* for underlying_type in ["nifty_eq", "nifty_pe", "nifty_ce", "nifty_fut"]
UnderlyingTypes == <<"nifty_eq", "nifty_pe", "nifty_ce", "nifty_fut">>
\* the dates in the names of the files, all of them in load_dates
FileDates == {180101, 180102}
\* the values of a row's columns
RowDates == {180101, 180102}
RowTimes == {33300}
Symbols == {"NIFTY18JAN10500"}
RowStrikes == {10500}
RowExpiries == {180125}
Bars == {[open |-> 10, high |-> 12, low |-> 9, close |-> 11,
          volume |-> 100, oi |-> 0, coi |-> 0],
         [open |-> 11, high |-> 13, low |-> 10, close |-> 12,
          volume |-> 100, oi |-> 0, coi |-> 0]}
\* which of the optional columns "strike" and "expiry" a file has
FileShapes == {[strike |-> FALSE, expiry |-> FALSE], [strike |-> TRUE, expiry |-> TRUE]}

\* stock_type = OptionType.EQ if underlying_type == f"{underlying}_eq" else ...
StockType(underlying, underlying_type) ==
    IF underlying_type = underlying \o "_eq" THEN "EQ"
    ELSE IF underlying_type = underlying \o "_ce" THEN "CE"
    ELSE IF underlying_type = underlying \o "_pe" THEN "PE"
    ELSE IF underlying_type = underlying \o "_fut" THEN "FUT"
    ELSE "None"

Contract(symbol, option_type, expiry, strike) ==
    [symbol |-> symbol, option_type |-> option_type, expiry |-> expiry, strike |-> strike]

Quote(contract, symbol, bar) ==
    [contract |-> contract, symbol |-> symbol,
     open |-> bar.open, high |-> bar.high, low |-> bar.low, close |-> bar.close,
     volume |-> bar.volume, oi |-> bar.oi, coi |-> bar.coi]

\* quote_data[date][option_type][underlying][symbol][time_frame][time], as the
\* set holding the quote there, empty when a level of the path is missing
quote_at(date, option_type, underlying, symbol, time_frame, time) ==
    LET slot == <<date, option_type, underlying, symbol, time_frame, time>>
    IN  IF slot \in DOMAIN quote_data THEN {quote_data[slot]} ELSE {}

\* The key the data model gives a row: (instrument identity, timeframe, date, time)
RowKey(underlying, stock_type, symbol, expiry, strike, date, time) ==
    [underlying |-> underlying, kind |-> stock_type, symbol |-> symbol,
     expiry |-> expiry, strike |-> strike, timeframe |-> 1, date |-> date, time |-> time]

\* get(key): the quote the store holds at the key's path
get(key) == quote_at(key.date, key.kind, key.underlying, key.symbol, key.timeframe, key.time)

Idle == [phase |-> "dirs", visited |-> {}]

LoaderInit ==
    /\ quote_data = EmptyMap
    /\ available_dates = EmptyMap
    /\ contracts = EmptyMap
    /\ loader = Idle
    /\ n_rows = 0
    /\ ingested = {}
    /\ last_row = [read |-> FALSE, held |-> FALSE, error |-> "none"]

\* for underlying in available_underlying: ... available_dates[underlying] = set()
EnterUnderlying(u) ==
    /\ loader.phase = "dirs"
    /\ u \notin loader.visited
    /\ available_dates' =
         IF u \in DOMAIN available_dates THEN available_dates
         ELSE [x \in DOMAIN available_dates \cup {u} |->
                 IF x = u THEN {} ELSE available_dates[x]]
    /\ loader' = [phase |-> "types", visited |-> loader.visited \cup {u},
                  underlying |-> u, type |-> 1]
    /\ UNCHANGED <<quote_data, contracts, n_rows, ingested, last_row>>
    /\ UNCHANGED <<expiryVars, resample, chainVars, serviceVars>>

\* nifty_fut is skipped, and so is a type that is not one of this underlying's
SkipType ==
    /\ loader.phase = "types"
    /\ loader.type <= Len(UnderlyingTypes)
    /\ \/ UnderlyingTypes[loader.type] = "nifty_fut"
       \/ StockType(loader.underlying, UnderlyingTypes[loader.type]) = "None"
    /\ loader' = [loader EXCEPT !.type = @ + 1]
    /\ UNCHANGED <<quote_data, available_dates, contracts, n_rows, ingested, last_row>>
    /\ UNCHANGED <<expiryVars, resample, chainVars, serviceVars>>

\* for file_name in all_files: ... df = pd.read_feather(file_path)
OpenFile(file_date, shape) ==
    /\ loader.phase = "types"
    /\ loader.type <= Len(UnderlyingTypes)
    /\ UnderlyingTypes[loader.type] # "nifty_fut"
    /\ StockType(loader.underlying, UnderlyingTypes[loader.type]) # "None"
    /\ loader' = [phase |-> "rows", visited |-> loader.visited,
                  underlying |-> loader.underlying, type |-> loader.type,
                  stock_type |-> StockType(loader.underlying, UnderlyingTypes[loader.type]),
                  file_date |-> file_date, shape |-> shape]
    /\ UNCHANGED <<quote_data, available_dates, contracts, n_rows, ingested, last_row>>
    /\ UNCHANGED <<expiryVars, resample, chainVars, serviceVars>>

\* if time not in ...[1]: ...[1][time] = quote
StoreQuoteOverwrite(slot, quote) ==
    [s \in DOMAIN quote_data \cup {slot} |-> IF s = slot THEN quote ELSE quote_data[s]]

StoreQuote(slot, quote) ==
    IF slot \in DOMAIN quote_data THEN quote_data
    ELSE [s \in DOMAIN quote_data \cup {slot} |-> IF s = slot THEN quote ELSE quote_data[s]]

\* the body of "for i in range(len(df))" for one row; the branches for a future
\* and for an option contract (lines 155-164) are empty, so contracts is left alone
IngestRow(date, time, symbol, strike_col, expiry_col, bar) ==
    /\ loader.phase = "rows"
    /\ n_rows < MaxRows
    /\ LET underlying == loader.underlying
           stock_type == loader.stock_type
           strike == IF loader.shape.strike THEN strike_col ELSE None
           expiry == IF loader.shape.expiry THEN expiry_col ELSE None
           quote == Quote(Contract(symbol, stock_type, expiry, strike), symbol, bar)
           slot == <<loader.file_date, stock_type, underlying, symbol, 1, time>>
           key == RowKey(underlying, stock_type, symbol, expiry, strike, date, time)
       IN  /\ available_dates' = [available_dates EXCEPT ![underlying] = @ \cup {date}]
           /\ quote_data' = StoreQuote(slot, quote)
           /\ ingested' = IF \E p \in ingested : p.key = key THEN ingested
                          ELSE ingested \cup {[key |-> key, quote |-> quote]}
           /\ last_row' = [read |-> TRUE, held |-> get(key) # {}, error |-> "none"]
    /\ n_rows' = n_rows + 1
    /\ UNCHANGED <<loader, contracts>>
    /\ UNCHANGED <<expiryVars, resample, chainVars, serviceVars>>

\* a row with a cell the conversions of lines 102-119 refuse (int or float of a
\* text that is no number) raises ValueError before anything is stored; nothing
\* catches it, so load_data_from_dataset is left with the rows and files after it
\* unread
IngestRowRaises ==
    /\ loader.phase = "rows"
    /\ loader' = [phase |-> "raised", visited |-> loader.visited, error |-> "ValueError"]
    /\ UNCHANGED <<quote_data, available_dates, contracts, n_rows, ingested, last_row>>
    /\ UNCHANGED <<expiryVars, resample, chainVars, serviceVars>>

\* the rows of the file are exhausted
CloseFile ==
    /\ loader.phase = "rows"
    /\ loader' = [phase |-> "types", visited |-> loader.visited,
                  underlying |-> loader.underlying, type |-> loader.type]
    /\ UNCHANGED <<quote_data, available_dates, contracts, n_rows, ingested, last_row>>
    /\ UNCHANGED <<expiryVars, resample, chainVars, serviceVars>>

\* the files of the type's directory are exhausted
NextType ==
    /\ loader.phase = "types"
    /\ loader.type <= Len(UnderlyingTypes)
    /\ UnderlyingTypes[loader.type] # "nifty_fut"
    /\ StockType(loader.underlying, UnderlyingTypes[loader.type]) # "None"
    /\ loader' = [loader EXCEPT !.type = @ + 1]
    /\ UNCHANGED <<quote_data, available_dates, contracts, n_rows, ingested, last_row>>
    /\ UNCHANGED <<expiryVars, resample, chainVars, serviceVars>>

\* the types are exhausted: on to the next directory
LeaveUnderlying ==
    /\ loader.phase = "types"
    /\ loader.type > Len(UnderlyingTypes)
    /\ loader' = [phase |-> "dirs", visited |-> loader.visited]
    /\ UNCHANGED <<quote_data, available_dates, contracts, n_rows, ingested, last_row>>
    /\ UNCHANGED <<expiryVars, resample, chainVars, serviceVars>>

ExpiryIdle ==
    /\ op = "none"
    /\ arg = None
    /\ result = None

\* resample_data not called
ResampleIdle == resample = [pc |-> "idle"]

\* meta = MetaDataV1(), no get_atm_strike call made
ChainIdle ==
    /\ options_data = EmptyMap
    /\ available_strikes = EmptyMap
    /\ expiry_type_map = EmptyMap
    /\ n_quotes = 0
    /\ atm = [called |-> FALSE, raised |-> "none", result |-> None]
    /\ query = [kind |-> "none"]

\* the threads that may serve requests
Readers == {"r1", "r2"}

\* Indicators() holds no sma value (its __init__ only annotates self.sma),
\* app.run has not been reached and no thread serves a request
ServiceIdle ==
    /\ indicators = [sma |-> EmptyMap, computations |-> 0]
    /\ server = [running |-> FALSE]
    /\ readers = [r \in Readers |-> [pc |-> "idle"]]
    /\ conversion = [pc |-> "idle"]

Init == LoaderInit /\ ExpiryIdle /\ ResampleIdle /\ ChainIdle /\ ServiceIdle

Next ==
    \/ \E u \in Underlyings : EnterUnderlying(u)
    \/ SkipType
    \/ \E fd \in FileDates, shape \in FileShapes : OpenFile(fd, shape)
    \/ \E date \in RowDates, time \in RowTimes, symbol \in Symbols,
          strike \in RowStrikes, expiry \in RowExpiries, bar \in Bars :
            IngestRow(date, time, symbol, strike, expiry, bar)
    \/ IngestRowRaises
    \/ CloseFile
    \/ NextType
    \/ LeaveUnderlying

Spec == Init /\ [][Next]_vars

(***************************************************************************)
(* The loader's claims.                                                    *)
(***************************************************************************)
\* every key a row of the model's inputs can have
AllKeys ==
    {RowKey(u, k, s, e, x, d, t) :
        u \in Underlyings, k \in {"EQ", "PE", "CE"}, s \in Symbols,
        e \in RowExpiries \cup {None}, x \in RowStrikes \cup {None},
        d \in RowDates, t \in RowTimes}

C2_GetReturnsIngested ==
    \A p \in ingested : get(p.key) = {p.quote}

\* C3, as stated: every date under which the store holds a quote of an underlying
\* is one of that underlying's available dates.
C3_StoredDatesAvailable ==
    \A slot \in DOMAIN quote_data :
        /\ slot[3] \in DOMAIN available_dates
        /\ slot[1] \in available_dates[slot[3]]

\* an option bar: a quote of a CE or PE file that had the strike and expiry columns
IsOptionBar(quote) ==
    /\ quote.contract.option_type \in {"CE", "PE"}
    /\ quote.contract.strike # None
    /\ quote.contract.expiry # None

\* C12, as stated: every option bar the store holds under (underlying, date) has
\* its expiry and strike recorded for that (underlying, date) in the store's index
\* of contracts.
C12_OptionBarsIndexed ==
    \A slot \in DOMAIN quote_data :
        IsOptionBar(quote_data[slot]) =>
            \E c \in DOMAIN contracts :
                /\ c[1] = slot[1]
                /\ c[3] = slot[3]
                /\ c[5] = quote_data[slot].contract.expiry
                /\ c[6] = quote_data[slot].contract.strike

\* C13, as stated: a row whose fields do not fit its kind is never stored: every
\* quote in the store has a strike exactly when its kind is CE or PE, and an
\* expiry exactly when its kind is FUT, CE or PE.
C13_FieldsFitKind ==
    \A slot \in DOMAIN quote_data :
        LET contract == quote_data[slot].contract
        IN  /\ contract.strike # None <=> contract.option_type \in {"CE", "PE"}
            /\ contract.expiry # None <=> contract.option_type \in {"FUT", "CE", "PE"}

\* C14, as stated: an error in one row never aborts the load: the row is skipped
\* and counted under its error kind and the rows after it are still read, so the
\* load is never left by an error a row raised.
C14_RowErrorNeverAborts ==
    loader.phase # "raised"

(***************************************************************************)
(* The process (start.py): the load, then app.run, whose threads serve the *)
(* requests to /strategy_exicuter/sample_strategy (routes.py), one thread  *)
(* a request.                                                              *)
(***************************************************************************)
\* load_data_from_dataset() of line 16 runs on the main thread while app.run
\* waits for it
LoadReturnedEarly == loader.phase = "dirs"

\* load_data_from_dataset() of line 16 has returned: the loop over the
\* directories is through (an exception a row raised ends the process instead)
LoadReturned ==
    /\ loader.phase = "dirs"
    /\ loader.visited = Underlyings

\* start.py lines 18-23, reached once line 16 has returned
AppRun ==
    /\ ~server.running
    /\ LoadReturned
    /\ server' = [running |-> TRUE]
    /\ UNCHANGED <<indicators, readers, conversion, loaderVars, expiryVars, resample, chainVars>>

\* sample_strategy_f, lines 27-29: Sample_strategy(request.json) accepts the
\* request, or raises and the except answers 500 with the store unread
ReceiveRequest(r, accepted) ==
    /\ server.running
    /\ readers[r].pc = "idle"
    /\ readers' = [readers EXCEPT ![r] =
                     IF accepted THEN [pc |-> "start_exicution"]
                     ELSE [pc |-> "responded", status |-> 500, seen |-> {}]]
    /\ UNCHANGED <<indicators, server, conversion, loaderVars, expiryVars, resample, chainVars>>

\* start_exicution: the nested loops go through every slot of
\* meta_data.quote_data and print it; then sample_strategy_f answers 200
StartExicution(r) ==
    /\ readers[r].pc = "start_exicution"
    /\ readers' = [readers EXCEPT ![r] =
                     [pc |-> "responded", status |-> 200, seen |-> DOMAIN quote_data]]
    /\ UNCHANGED <<indicators, server, conversion, loaderVars, expiryVars, resample, chainVars>>

ServerNext ==
    \/ \E u \in Underlyings : EnterUnderlying(u)
    \/ SkipType
    \/ \E fd \in FileDates, shape \in FileShapes : OpenFile(fd, shape)
    \/ \E date \in RowDates, time \in RowTimes, symbol \in Symbols,
          strike \in RowStrikes, expiry \in RowExpiries, bar \in Bars :
            IngestRow(date, time, symbol, strike, expiry, bar)
    \/ IngestRowRaises
    \/ CloseFile
    \/ NextType
    \/ LeaveUnderlying
    \/ AppRun
    \/ \E r \in Readers, accepted \in BOOLEAN : ReceiveRequest(r, accepted)
    \/ \E r \in Readers : StartExicution(r)

SpecServer == Init /\ [][ServerNext]_vars

\* every directory of the dataset has been gone through
EveryDirectoryRead ==
    /\ loader.phase = "dirs"
    /\ loader.visited = Underlyings

\* C19: no request is served before the load has finished: from the step that
\* receives the first request on, every directory has been read, and no step
\* reads a row or changes the store or the available dates.
C19_LoadBeforeQueries ==
    [][(\E r \in Readers : readers'[r].pc # "idle") =>
          /\ EveryDirectoryRead
          /\ EveryDirectoryRead'
          /\ n_rows' = n_rows
          /\ quote_data' = quote_data
          /\ available_dates' = available_dates]_vars

\* C19's case: after a load that read rows, a thread has gone through the store
\* and answered while another request is still being served.
C19_Witness ==
    /\ n_rows = MaxRows
    /\ DOMAIN quote_data # {}
    /\ \E r, q \in Readers :
          /\ readers[r].pc = "responded"
          /\ readers[r].status = 200
          /\ readers[r].seen = DOMAIN quote_data
          /\ readers[q].pc = "start_exicution"

(***************************************************************************)
(* The expiry utilities called on their own (test.py): the store plays no  *)
(* part, each call is a pure function of its date.                         *)
(***************************************************************************)
FirstExpiryYear == 18
NumExpiryYears == 3

\* every calendar day of the years FirstExpiryYear .. FirstExpiryYear + NumExpiryYears - 1
ExpiryDates ==
    {d \in {yy * 10000 + mm * 100 + dd :
              yy \in FirstExpiryYear..(FirstExpiryYear + NumExpiryYears - 1),
              mm \in 1..12, dd \in 1..31} : ValidDate(d)}

\* the date the utilities are called with
ExpiryInit ==
    /\ LoaderInit
    /\ ResampleIdle
    /\ ChainIdle
    /\ ServiceIdle
    /\ op = "none"
    /\ arg \in ExpiryDates
    /\ result = None

\* detect_expiry_type(expiry_date)
Classify ==
    /\ op' = "classify"
    /\ result' = detect_expiry_type(arg)
    /\ UNCHANGED <<arg, loaderVars, resample, chainVars, serviceVars>>

\* DataAccessor.get_current_weekly_expiry(underlying, date)
CurrentWeeklyExpiry ==
    /\ op' = "weekly"
    /\ result' = get_weekly_expiry(arg)
    /\ UNCHANGED <<arg, loaderVars, resample, chainVars, serviceVars>>

\* DataAccessor.get_current_monthly_expiry(underlying, date)
CurrentMonthlyExpiry ==
    /\ op' = "monthly"
    /\ result' = get_monthly_expiry(arg)
    /\ UNCHANGED <<arg, loaderVars, resample, chainVars, serviceVars>>

ExpiryNext ==
    \/ Classify
    \/ CurrentWeeklyExpiry
    \/ CurrentMonthlyExpiry

SpecExpiry == ExpiryInit /\ [][ExpiryNext]_vars

\* C7, as stated: current_weekly_expiry(date) is the earliest Thursday on or
\* after date: a Thursday, 0 to 6 days after date (date itself on a Thursday).
C7_WeeklyOnOrAfter ==
    op = "weekly" =>
        /\ Weekday(Strptime(result)) = 3
        /\ Strptime(result) - Strptime(arg) \in 0..6

\* The last Thursday of its month: a Thursday whose next Thursday falls in
\* another month.
IsLastThursdayOfMonth(date) ==
    /\ Weekday(Strptime(date)) = 3
    /\ MonthOfOrdinal(Strptime(date) + 7) # MonthOfOrdinal(Strptime(date))

Reach == 11

strategy_underlying == "nifty"
\* the dates the loader may have found rows for
AvailCandidates == {180101, 180102, 180103, 180104}
\* the dates a strategy may ask for: up to Reach days before the first and after
\* the last of them
RequestDates ==
    LET lo == Strptime(180101) - Reach
        hi == Strptime(180104) + Reach
    IN  {Strftime(o) : o \in lo..hi}

\* min([datetime.strptime(str(date), "%y%m%d") for date in dates])
MinDatetime(dates) ==
    LET ords == {Strptime(d) : d \in dates}
    IN  CHOOSE o \in ords : \A x \in ords : o <= x

MaxDatetime(dates) ==
    LET ords == {Strptime(d) : d \in dates}
    IN  CHOOSE o \in ords : \A x \in ords : o >= x

\* int(date.strftime("%y%m%d")) not in meta_data.available_dates[strategy_underlying]
NotAvailableInverted(date, dates) == Strftime(date) \in dates

NotAvailable(date, dates) == Strftime(date) \notin dates

\* one pass of the body of either while loop: the date after it, and whether the
\* loop was left by break
Walk(date, last_available_date) ==
    IF date < last_available_date THEN [date |-> date + 1, break |-> FALSE]
    ELSE IF date > last_available_date THEN [date |-> date - 1, break |-> FALSE]
    ELSE [date |-> date, break |-> TRUE]

\* The state a finished load leaves when, for each of the given dates, the file of
\* that date held one equity row of that date.
LoadedRowKey(date) ==
    RowKey(strategy_underlying, "EQ", "NIFTY18JAN10500", None, None, date, 33300)

LoadedQuote ==
    Quote(Contract("NIFTY18JAN10500", "EQ", None, None), "NIFTY18JAN10500",
          [open |-> 10, high |-> 12, low |-> 9, close |-> 11,
           volume |-> 100, oi |-> 0, coi |-> 0])

Loaded(dates) ==
    /\ quote_data = [slot \in {<<d, "EQ", strategy_underlying, "NIFTY18JAN10500", 1, 33300>> :
                                  d \in dates} |-> LoadedQuote]
    /\ available_dates = [u \in {strategy_underlying} |-> dates]
    /\ contracts = EmptyMap
    /\ loader = [phase |-> "dirs", visited |-> {strategy_underlying}]
    /\ n_rows = Cardinality(dates)
    /\ ingested = {[key |-> LoadedRowKey(d), quote |-> LoadedQuote] : d \in dates}
    /\ last_row = [read |-> dates # {}, held |-> FALSE, error |-> "none"]

ResampleInit ==
    /\ \E dates \in SUBSET AvailCandidates : Loaded(dates)
    /\ ExpiryIdle
    /\ ChainIdle
    /\ ServiceIdle
    /\ \E s \in RequestDates, e \in RequestDates :
         resample = [pc |-> "entry", strategy_start_date |-> s, startegy_end_date |-> e]

\* lines 25-32; strptime of a string that is no date raises ValueError, and so
\* does min() of an empty list
Enter ==
    /\ resample.pc = "entry"
    /\ LET dates == available_dates[strategy_underlying]
       IN  resample' =
             IF \/ StrptimeRaises(resample.strategy_start_date)
                \/ StrptimeRaises(resample.startegy_end_date)
                \/ \E d \in dates : StrptimeRaises(d)
                \/ dates = {}
             THEN [pc |-> "ValueError",
                   strategy_start_date |-> resample.strategy_start_date,
                   startegy_end_date |-> resample.startegy_end_date]
             ELSE [pc |-> "start",
                   strategy_start_date |-> resample.strategy_start_date,
                   startegy_end_date |-> resample.startegy_end_date,
                   start_date |-> Strptime(resample.strategy_start_date) - 2,
                   end_date |-> Strptime(resample.startegy_end_date),
                   last_available_date |-> MinDatetime(dates)]
    /\ UNCHANGED <<loaderVars, expiryVars, chainVars, serviceVars>>

\* lines 34-46: the test of the if and of the while, and one pass of the loop
AdjustStart ==
    /\ resample.pc = "start"
    /\ LET dates == available_dates[strategy_underlying]
           w == Walk(resample.start_date, resample.last_available_date)
       IN  resample' =
             IF NotAvailable(resample.start_date, dates) /\ ~w.break
             THEN [resample EXCEPT !.start_date = w.date]
             ELSE [resample EXCEPT !.pc = "end"]
    /\ UNCHANGED <<loaderVars, expiryVars, chainVars, serviceVars>>

\* lines 48-60
AdjustEnd ==
    /\ resample.pc = "end"
    /\ LET dates == available_dates[strategy_underlying]
           w == Walk(resample.end_date, resample.last_available_date)
       IN  resample' =
             IF NotAvailable(resample.end_date, dates) /\ ~w.break
             THEN [resample EXCEPT !.end_date = w.date]
             ELSE [resample EXCEPT !.pc = "adjusted"]
    /\ UNCHANGED <<loaderVars, expiryVars, chainVars, serviceVars>>

\* lines 64-85, one pass of "while start_date <= end_date": resampled is bound to
\* a new empty dict and start_date moves on a day, on an available date as on any
\* other: the if of lines 72-74 has neither colon nor body, and nothing is put
\* into resampled or into the store
ResampleDay ==
    /\ resample.pc \in {"adjusted", "days"}
    /\ resample.start_date <= resample.end_date
    /\ resample' = ("pc" :> "days") @@ ("resampled" :> EmptyMap) @@
                   [resample EXCEPT !.start_date = @ + 1]
    /\ UNCHANGED <<loaderVars, expiryVars, chainVars, serviceVars>>

\* the while is left and the function ends without a return statement
ResampleReturn ==
    /\ resample.pc \in {"adjusted", "days"}
    /\ resample.start_date > resample.end_date
    /\ resample' = ("pc" :> "returned") @@ ("returned" :> None) @@ resample
    /\ UNCHANGED <<loaderVars, expiryVars, chainVars, serviceVars>>

ResampleNext ==
    \/ Enter
    \/ AdjustStart
    \/ AdjustEnd
    \/ ResampleDay
    \/ ResampleReturn

SpecResample == ResampleInit /\ [][ResampleNext]_vars

(***************************************************************************)
(* The date adjustment's claims.                                           *)
(***************************************************************************)
Abs(x) == IF x < 0 THEN -x ELSE x

\* the member of dates at the smallest calendar distance from date, the earlier
\* of two equally near
Nearest(dates, date) ==
    LET dist(a) == Abs(Strptime(a) - Strptime(date))
    IN  CHOOSE a \in dates :
            \A b \in dates :
                dist(a) < dist(b) \/ (dist(a) = dist(b) /\ Strptime(a) <= Strptime(b))

\* C4, as stated: the start and the end date used are the available dates
\* nearest to the requested ones, the earlier of two equally near (the requested
\* date itself when it is available).
C4_NearestAvailable ==
    resample.pc = "adjusted" =>
        LET dates == available_dates[strategy_underlying]
        IN  /\ Strftime(resample.start_date) = Nearest(dates, resample.strategy_start_date)
            /\ Strftime(resample.end_date) = Nearest(dates, resample.startegy_end_date)

WithinHorizon(dates, date) ==
    \E a \in dates : Abs(Strptime(a) - Strptime(date)) <= 10

\* C6, as stated: the adjustment fails with NoTradingDateNearby, and returns no
\* substitute date, when no available date lies within the horizon of the
\* requested one: whenever it has returned, both requested dates had an available
\* date within the horizon.
C6_FailsBeyondHorizon ==
    resample.pc = "adjusted" =>
        /\ WithinHorizon(available_dates[strategy_underlying], resample.strategy_start_date)
        /\ WithinHorizon(available_dates[strategy_underlying], resample.startegy_end_date)

(***************************************************************************)
(* The date adjustment over dates of the years 2000..2009. The loader keeps *)
(* int(row["date"]), and int() of "050101" is the five-digit 50101.        *)
(***************************************************************************)
\* 1, 2 and 3 Jan 2005 and 31 Dec 2005, as the loader holds them
EarlyCandidates == {50101, 50102, 50103, 51231}
\* the dates a strategy asks for
EarlyRequests == {50101, 50102, 50103}

EarlyInit ==
    /\ \E dates \in SUBSET EarlyCandidates : Loaded(dates)
    /\ ExpiryIdle
    /\ ChainIdle
    /\ ServiceIdle
    /\ \E s \in EarlyRequests, e \in EarlyRequests :
         resample = [pc |-> "entry", strategy_start_date |-> s, startegy_end_date |-> e]

SpecEarly == EarlyInit /\ [][ResampleNext]_vars

\* C20, as stated: for every requested start and end date and every non-empty
\* available_dates[underlying], the two date-adjustment loops of resample_data
\* each end on a date that is a member of available_dates[underlying]: once the
\* first loop is over start_date is a member, and once the second is over
\* end_date is one.
C20_LoopsEndOnAvailable ==
    LET dates == available_dates[strategy_underlying]
    IN  /\ (resample.pc = "end" /\ dates # {}) => Strftime(resample.start_date) \in dates
        /\ (resample.pc = "adjusted" /\ dates # {}) => Strftime(resample.end_date) \in dates

(***************************************************************************)
(* resample_data over one day of 1-minute bars: the store holds some of    *)
(* five consecutive bars of one symbol on 1 Jan 2018, the dates have been  *)
(* adjusted (both to that day) and the loop over the days runs.            *)
(***************************************************************************)
\* market_start_time, 09:15:00, and the minutes the day's bars may stand at
SessionStart == 33300
Minutes == 1..5
\* strategy_time_frame, in minutes
TimeFrames == {1, 5}

\* the bar of minute i: (10,12,9,11), (11,13,10,12), ... (14,16,13,15), volume 100
MinuteBar(i) ==
    [open |-> 9 + i, high |-> 11 + i, low |-> 8 + i, close |-> 10 + i,
     volume |-> 100, oi |-> 50 + i, coi |-> 0]

MinuteTime(i) == SessionStart + 60 * (i - 1)

\* the state a finished load leaves when the file of 1 Jan 2018 held the rows of
\* the given minutes
LoadedMinutes(minutes) ==
    /\ quote_data =
         [slot \in {<<180101, "EQ", strategy_underlying, "NIFTY18JAN10500", 1, MinuteTime(i)>> :
                       i \in minutes} |->
            Quote(Contract("NIFTY18JAN10500", "EQ", None, None), "NIFTY18JAN10500",
                  MinuteBar((slot[6] - SessionStart) \div 60 + 1))]
    /\ available_dates = [u \in {strategy_underlying} |-> {180101}]
    /\ contracts = EmptyMap
    /\ loader = [phase |-> "dirs", visited |-> {strategy_underlying}]
    /\ n_rows = Cardinality(minutes)
    /\ ingested =
         {[key |-> RowKey(strategy_underlying, "EQ", "NIFTY18JAN10500", None, None,
                          180101, MinuteTime(i)),
           quote |-> Quote(Contract("NIFTY18JAN10500", "EQ", None, None),
                           "NIFTY18JAN10500", MinuteBar(i))] : i \in minutes}
    /\ last_row = [read |-> TRUE, held |-> FALSE, error |-> "none"]

\* resample_data(strategy_underlying, strategy_time_frame, 180101, 180101,
\* market_start_time, market_end_time) after lines 25-60
AggregateInit ==
    /\ \E minutes \in SUBSET Minutes : minutes # {} /\ LoadedMinutes(minutes)
    /\ ExpiryIdle
    /\ ChainIdle
    /\ ServiceIdle
    /\ \E tf \in TimeFrames :
         resample = [pc |-> "adjusted", strategy_start_date |-> 180101,
                     startegy_end_date |-> 180101,
                     start_date |-> Strptime(180101), end_date |-> Strptime(180101),
                     last_available_date |-> Strptime(180101),
                     strategy_time_frame |-> tf, market_start_time |-> SessionStart]

AggregateNext ==
    \/ ResampleDay
    \/ ResampleReturn

SpecAggregate == AggregateInit /\ [][AggregateNext]_vars

(***************************************************************************)
(* The resampling claim.                                                   *)
(***************************************************************************)
\* the times of the 1-minute bars the store holds for the underlying on the date
BarTimes(date) ==
    {slot[6] : slot \in {x \in DOMAIN quote_data :
                           x[1] = date /\ x[3] = strategy_underlying /\ x[5] = 1}}

BarAt(date, time) ==
    quote_data[CHOOSE slot \in DOMAIN quote_data :
                  /\ slot[1] = date /\ slot[3] = strategy_underlying
                  /\ slot[5] = 1 /\ slot[6] = time]

\* the window of time_frame minutes, counted from market_start_time, a time is in
WindowOf(time, time_frame, market_start_time) ==
    (time - market_start_time) \div (time_frame * 60)

RECURSIVE SumVolume(_, _)
SumVolume(date, times) ==
    IF times = {} THEN 0
    ELSE LET t == CHOOSE x \in times : TRUE
         IN  BarAt(date, t).volume + SumVolume(date, times \ {t})

\* the bar is the aggregate of the date's bars at the given times
IsAggregate(bar, date, times) ==
    LET first == CHOOSE t \in times : \A x \in times : t <= x
        last == CHOOSE t \in times : \A x \in times : t >= x
    IN  /\ bar.open = BarAt(date, first).open
        /\ bar.close = BarAt(date, last).close
        /\ \E t \in times : bar.high = BarAt(date, t).high
        /\ \A t \in times : bar.high >= BarAt(date, t).high
        /\ \E t \in times : bar.low = BarAt(date, t).low
        /\ \A t \in times : bar.low <= BarAt(date, t).low
        /\ bar.volume = SumVolume(date, times)
        /\ bar.oi = BarAt(date, last).oi

\* C15, as stated: once resample_data has been through the day, resampled holds,
\* for each window of strategy_time_frame minutes that has 1-minute bars, one bar
\* whose open is the first bar's open, close the last bar's close, high the
\* greatest high, low the least low, volume the sum of the volumes and oi the
\* last bar's oi (the five bars (10,12,9,11) .. (14,16,13,15) of volume 100 give
\* open 10, close 15, high 16, low 9, volume 500).
C15_WindowAggregates ==
    resample.pc = "returned" =>
        LET date == Strftime(resample.end_date)
            window(t) == WindowOf(t, resample.strategy_time_frame, resample.market_start_time)
        IN  \A t \in BarTimes(date) :
                LET times == {x \in BarTimes(date) : window(x) = window(t)}
                IN  \E w \in DOMAIN resample.resampled :
                        IsAggregate(resample.resampled[w], date, times)

(***************************************************************************)
(* Indicators (data_storage/metadata_manupulator/__init__.py, models.py    *)
(* and storage.py).  The store holds one day's 1-minute bars of one        *)
(* symbol; each thread holds an SmaSetting and calls add_indicator, the    *)
(* threads running in any interleaving.                                    *)
(***************************************************************************)
MaxSeries == 4

\* the closes of the bars, and SmaSetting.sma_length
CloseValues == {10, 20, 30, 40}
SmaLengths == 1..3

\* SmaSetting(sma_length, source)
SmaSetting(sma_length, source) == [sma_length |-> sma_length, source |-> source]

CloseBar(close) ==
    [open |-> close, high |-> close, low |-> close, close |-> close,
     volume |-> 100, oi |-> 0, coi |-> 0]

\* the state a finished load leaves when the file of 1 Jan 2018 held one row a
\* minute with the given closes
LoadedCloses(closes) ==
    /\ quote_data =
         [slot \in {<<180101, "EQ", strategy_underlying, "NIFTY18JAN10500", 1, MinuteTime(i)>> :
                       i \in DOMAIN closes} |->
            Quote(Contract("NIFTY18JAN10500", "EQ", None, None), "NIFTY18JAN10500",
                  CloseBar(closes[(slot[6] - SessionStart) \div 60 + 1]))]
    /\ available_dates = [u \in {strategy_underlying} |-> {180101}]
    /\ contracts = EmptyMap
    /\ loader = [phase |-> "dirs", visited |-> {strategy_underlying}]
    /\ n_rows = Len(closes)
    /\ ingested =
         {[key |-> RowKey(strategy_underlying, "EQ", "NIFTY18JAN10500", None, None,
                          180101, MinuteTime(i)),
           quote |-> Quote(Contract("NIFTY18JAN10500", "EQ", None, None),
                           "NIFTY18JAN10500", CloseBar(closes[i]))] : i \in DOMAIN closes}
    /\ last_row = [read |-> TRUE, held |-> FALSE, error |-> "none"]

\* every thread is about to ask for the sma of the same symbol, timeframe,
\* length and source
IndicatorInit ==
    /\ \E n \in 1..MaxSeries : \E closes \in [1..n -> CloseValues] : LoadedCloses(closes)
    /\ ExpiryIdle
    /\ ResampleIdle
    /\ ChainIdle
    /\ indicators = [sma |-> EmptyMap, computations |-> 0]
    /\ server = [running |-> TRUE]
    /\ conversion = [pc |-> "idle"]
    /\ \E sma_length \in SmaLengths :
         readers = [r \in Readers |->
                      [pc |-> "idle", setting |-> SmaSetting(sma_length, "CLOSE")]]

\* a thread calls add_indicator()
CallAddIndicator(r) ==
    /\ readers[r].pc = "idle"
    /\ readers' = [readers EXCEPT ![r].pc = "add_indicator"]
    /\ UNCHANGED <<indicators, server, conversion, loaderVars, expiryVars, resample, chainVars>>

\* add_indicator's body is "...": it reads no bar, computes and stores no value,
\* takes no lock, and returns None
ReturnAddIndicator(r) ==
    /\ readers[r].pc = "add_indicator"
    /\ readers' = [readers EXCEPT ![r] =
                     [pc |-> "returned", setting |-> readers[r].setting, got |-> {}]]
    /\ UNCHANGED <<indicators, server, conversion, loaderVars, expiryVars, resample, chainVars>>

IndicatorNext ==
    \/ \E r \in Readers : CallAddIndicator(r)
    \/ \E r \in Readers : ReturnAddIndicator(r)

SpecIndicator == IndicatorInit /\ [][IndicatorNext]_vars

(***************************************************************************)
(* The indicator claims.                                                   *)
(***************************************************************************)
\* the close of the i-th 1-minute bar of the day
CloseOf(i) == BarAt(180101, MinuteTime(i)).close

RECURSIVE SumCloses(_, _)
SumCloses(from, to) ==
    IF from > to THEN 0 ELSE CloseOf(from) + SumCloses(from + 1, to)

\* C16, as stated: once a thread's sma request has returned, the sma held for the
\* n bars of the day has n points, undefined at each of the first sma_length - 1
\* bars and, at bar i from sma_length on, the mean of the closes of bars
\* i - sma_length + 1 .. i (lengths 3 over closes 10, 20, 30, 40: undefined,
\* undefined, 20, 30).
C16_SmaSeries ==
    \A r \in Readers :
        readers[r].pc = "returned" =>
            LET length == readers[r].setting.sma_length
                n == Cardinality(BarTimes(180101))
            IN  \A i \in 1..n :
                    /\ MinuteTime(i) \in DOMAIN indicators.sma
                    /\ IF i < length
                       THEN indicators.sma[MinuteTime(i)] = None
                       ELSE length * indicators.sma[MinuteTime(i)] =
                               SumCloses(i - length + 1, i)

\* C17, as stated: when the threads ask for the sma of one key that is not held
\* yet, the sma is computed at most once, in every interleaving, and every thread
\* whose request has returned has got the series of that one computation.
C17_SingleFlight ==
    /\ indicators.computations <= 1
    /\ \A r \in Readers :
          readers[r].pc = "returned" =>
              /\ indicators.computations = 1
              /\ readers[r].got # {}
              /\ \A q \in Readers :
                    readers[q].pc = "returned" => readers[q].got = readers[r].got

(***************************************************************************)
(* MetaDataV1 and its DataAccessor (test.py).  Option quotes are put into  *)
(* the store the way example_usage_v1 puts one, for any underlying,        *)
(* expiry, strike, option type, date and time.  The store is filled and    *)
(* the expiry types mapped before the accessor is used ("Call this after   *)
(* loading all data but before backtesting", populate_expiry_type_map),    *)
(* and the accessor's call, which changes nothing, ends a behaviour.       *)
(***************************************************************************)
MaxQuotes == 3

\* the underlyings, dates and expiries option quotes are stored for
ChainUnderlyings == {"NIFTY"}
ChainDates == {180101}
\* 18 Jan 2018 is a Thursday, 25 Jan 2018 the last Thursday of its month
ChainExpiries == {180118, 180125}
Strikes == {10400, 10500, 10600}
OptionTypes == {"CE", "PE"}
ChainTimes == {34200}
\* what a query may ask for: also an underlying and a date nothing is stored for
QueryUnderlyings == {"NIFTY", "BANKNIFTY"}
QueryDates == {180101, 180102}
QueryExpiryTypes == {"None", "WEEKLY", "MONTHLY"}
SpotPrices == {10503, 10550}

OptionSymbol == "NIFTY18JAN"

ChainInit ==
    /\ LoaderInit
    /\ ExpiryIdle
    /\ ResampleIdle
    /\ ChainIdle
    /\ ServiceIdle

\* example_usage_v1, lines 284-324: the quote goes to options_data (assigned,
\* whatever was there) and its strike to available_strikes
PutOptionQuote(underlying, expiry, strike, opt_type, date, time, bar) ==
    /\ ~atm.called
    /\ query.kind = "none"
    /\ n_quotes < MaxQuotes
    /\ LET expiry_type == detect_expiry_type(expiry)
           path == <<underlying, expiry_type, expiry, strike, opt_type, 1, date, time>>
           quote == Quote(Contract(OptionSymbol, opt_type, expiry, strike), OptionSymbol, bar)
           at == <<underlying, date, expiry_type, expiry>>
       IN  /\ options_data' =
                 [q \in DOMAIN options_data \cup {path} |->
                     IF q = path THEN quote ELSE options_data[q]]
           /\ available_strikes' =
                 [a \in DOMAIN available_strikes \cup {at} |->
                     IF a = at
                     THEN (IF at \in DOMAIN available_strikes
                           THEN available_strikes[at] ELSE {}) \cup {strike}
                     ELSE available_strikes[a]]
    /\ n_quotes' = n_quotes + 1
    /\ UNCHANGED <<expiry_type_map, atm, query, loaderVars, expiryVars, resample, serviceVars>>

\* populate_expiry_type_map(meta, underlying)
PopulateExpiryTypeMap(underlying) ==
    /\ ~atm.called
    /\ query.kind = "none"
    /\ LET all_expiries == {q[3] : q \in {x \in DOMAIN options_data : x[1] = underlying}}
           new == {<<underlying, expiry>> : expiry \in all_expiries}
       IN  expiry_type_map' =
             [k \in DOMAIN expiry_type_map \cup new |->
                 IF k \in new THEN detect_expiry_type(k[2]) ELSE expiry_type_map[k]]
    /\ expiry_type_map' # expiry_type_map
    /\ UNCHANGED <<options_data, available_strikes, n_quotes, atm, query,
                   loaderVars, expiryVars, resample, serviceVars>>

\* if expiry_type is None: the type the map gives the expiry, else the type
\* detect_expiry_type gives it
ResolveExpiryType(underlying, expiry, expiry_type) ==
    IF expiry_type = "None"
    THEN IF <<underlying, expiry>> \in DOMAIN expiry_type_map
         THEN expiry_type_map[<<underlying, expiry>>]
         ELSE detect_expiry_type(expiry)
    ELSE expiry_type

\* available_strikes[underlying][date][expiry_type][expiry], empty when a level
\* of the path is missing
StrikesAtAnyDate(underlying, date, expiry_type, expiry) ==
    UNION {available_strikes[a] :
             a \in {x \in DOMAIN available_strikes :
                      x[1] = underlying /\ x[3] = expiry_type /\ x[4] = expiry}}

StrikesAt(underlying, date, expiry_type, expiry) ==
    IF <<underlying, date, expiry_type, expiry>> \in DOMAIN available_strikes
    THEN available_strikes[<<underlying, date, expiry_type, expiry>>]
    ELSE {}

\* list(a set): its members in the order the set iterates them, which is the
\* implementation's choice
ListsOf(S) ==
    {l \in [1..Cardinality(S) -> S] : \A i, j \in DOMAIN l : i # j => l[i] # l[j]}

\* min(strikes, key=lambda x: abs(x - spot_price)): the first of the list among
\* those with the least key
RECURSIVE PyMinFrom(_, _, _, _)
PyMinFrom(strikes, spot_price, i, best) ==
    IF i > Len(strikes) THEN best
    ELSE LET x == strikes[i]
             d(v) == IF v - spot_price < 0 THEN spot_price - v ELSE v - spot_price
         IN  PyMinFrom(strikes, spot_price, i + 1, IF d(x) < d(best) THEN x ELSE best)

PyMin(strikes, spot_price) == PyMinFrom(strikes, spot_price, 2, strikes[1])

\* DataAccessor.get_atm_strike(underlying, spot_price, date, expiry, expiry_type)
GetAtmStrike(underlying, spot_price, date, expiry, expiry_type) ==
    /\ ~atm.called
    /\ query.kind = "none"
    /\ LET resolved == ResolveExpiryType(underlying, expiry, expiry_type)
           found == StrikesAt(underlying, date, resolved, expiry)
       IN  \E strikes \in ListsOf(found) :
             atm' = [called |-> TRUE, underlying |-> underlying,
                     spot_price |-> spot_price, date |-> date, expiry |-> expiry,
                     expiry_type |-> expiry_type, raised |-> "none",
                     result |-> IF Len(strikes) = 0 THEN None
                                ELSE PyMin(strikes, spot_price)]
    /\ UNCHANGED <<options_data, available_strikes, expiry_type_map, n_quotes, query,
                   loaderVars, expiryVars, resample, serviceVars>>

ChainNext ==
    \/ \E underlying \in ChainUnderlyings, expiry \in ChainExpiries, strike \in Strikes,
          opt_type \in OptionTypes, date \in ChainDates, time \in ChainTimes, bar \in Bars :
            PutOptionQuote(underlying, expiry, strike, opt_type, date, time, bar)
    \/ \E underlying \in QueryUnderlyings : PopulateExpiryTypeMap(underlying)
    \/ \E underlying \in QueryUnderlyings, spot_price \in SpotPrices, date \in QueryDates,
          expiry \in ChainExpiries, expiry_type \in QueryExpiryTypes :
            GetAtmStrike(underlying, spot_price, date, expiry, expiry_type)

SpecChain == ChainInit /\ [][ChainNext]_vars

(***************************************************************************)
(* get_atm_strike's claims.                                                *)
(***************************************************************************)
\* the strikes known for (underlying, expiry, date), under whichever expiry type
KnownStrikes(underlying, expiry, date) ==
    UNION {available_strikes[a] :
             a \in {x \in DOMAIN available_strikes :
                      x[1] = underlying /\ x[2] = date /\ x[4] = expiry}}

\* C9, as stated: the strike returned is a known strike of (underlying, expiry,
\* date) at the least distance from spot_price, and the lower of two equally
\* distant, whatever order the strikes are iterated in.
C9_NearestLowerOnTie ==
    (atm.called /\ atm.result # None) =>
        LET known == KnownStrikes(atm.underlying, atm.expiry, atm.date)
            dist(v) == Abs(v - atm.spot_price)
        IN  /\ atm.result \in known
            /\ \A x \in known :
                  \/ dist(atm.result) < dist(x)
                  \/ dist(atm.result) = dist(x) /\ atm.result <= x

QueryTimes == {34200, 34260}

\* self.meta.options_data[underlying][expiry_type][expiry]: the strikes stored
\* under the expiry, on whatever date
StrikesUnder(underlying, expiry_type, expiry) ==
    {p[4] : p \in {x \in DOMAIN options_data :
                     x[1] = underlying /\ x[2] = expiry_type /\ x[3] = expiry}}

\* options_data[underlying][expiry_type][expiry][strike][opt_type][timeframe][date][time]
\* inside try / except KeyError: the quote there, none when a level is missing
LegAtAnyTime(underlying, expiry_type, expiry, strike, opt_type, timeframe, date, time) ==
    {options_data[p] :
       p \in {x \in DOMAIN options_data :
                /\ x[1] = underlying /\ x[2] = expiry_type /\ x[3] = expiry
                /\ x[4] = strike /\ x[5] = opt_type /\ x[6] = timeframe /\ x[7] = date}}

LegAt(underlying, expiry_type, expiry, strike, opt_type, timeframe, date, time) ==
    LET path == <<underlying, expiry_type, expiry, strike, opt_type, timeframe, date, time>>
    IN  IF path \in DOMAIN options_data THEN {options_data[path]} ELSE {}

\* expiry_type_map once a getter has resolved the type of an expiry: the getters
\* read the map and fall back on detect_expiry_type without keeping what it gave
ExpiryTypeMapMemoised(underlying, expiry, expiry_type) ==
    IF expiry_type = "None" /\ <<underlying, expiry>> \notin DOMAIN expiry_type_map
    THEN [k \in DOMAIN expiry_type_map \cup {<<underlying, expiry>>} |->
            IF k = <<underlying, expiry>> THEN detect_expiry_type(expiry)
            ELSE expiry_type_map[k]]
    ELSE expiry_type_map

ExpiryTypeMapAfter(underlying, expiry, expiry_type) == expiry_type_map

\* DataAccessor.get_option_chain(underlying, expiry, date, time, 1, expiry_type)
GetOptionChain(underlying, expiry, date, time, expiry_type) ==
    /\ ~atm.called
    /\ query.kind = "none"
    /\ LET resolved == ResolveExpiryType(underlying, expiry, expiry_type)
           leg(strike, opt_type) ==
               LegAt(underlying, resolved, expiry, strike, opt_type, 1, date, time)
           chain == [strike \in StrikesUnder(underlying, resolved, expiry) |->
                       [opt_type \in {o \in {"CE", "PE"} : leg(strike, o) # {}} |->
                           CHOOSE quote \in leg(strike, opt_type) : TRUE]]
       IN  query' = [kind |-> "chain", underlying |-> underlying, expiry |-> expiry,
                     date |-> date, time |-> time, expiry_type |-> expiry_type,
                     raised |-> "none", result |-> chain]
    /\ expiry_type_map' = ExpiryTypeMapAfter(underlying, expiry, expiry_type)
    /\ UNCHANGED <<options_data, available_strikes, n_quotes, atm,
                   loaderVars, expiryVars, resample, serviceVars>>

\* DataAccessor.get_option_quote(underlying, expiry, strike, option_type, date,
\* time, 1, expiry_type): the quote, None (no quote) on KeyError
GetOptionQuote(underlying, expiry, strike, option_type, date, time, expiry_type) ==
    /\ ~atm.called
    /\ query.kind = "none"
    /\ LET resolved == ResolveExpiryType(underlying, expiry, expiry_type)
       IN  query' = [kind |-> "option_quote", underlying |-> underlying,
                     expiry |-> expiry, strike |-> strike, option_type |-> option_type,
                     date |-> date, time |-> time, expiry_type |-> expiry_type,
                     raised |-> "none",
                     result |-> LegAt(underlying, resolved, expiry, strike,
                                      option_type, 1, date, time)]
    /\ expiry_type_map' = ExpiryTypeMapAfter(underlying, expiry, expiry_type)
    /\ UNCHANGED <<options_data, available_strikes, n_quotes, atm,
                   loaderVars, expiryVars, resample, serviceVars>>

\* MetaDataV1.equity_data and MetaDataV1.available_expiries: set to {} by
\* __init__ and written by nothing
equity_data == EmptyMap
available_expiries == EmptyMap

\* DataAccessor.get_equity_quote(symbol, date, time, 1)
GetEquityQuote(symbol, date, time) ==
    /\ ~atm.called
    /\ query.kind = "none"
    /\ query' = [kind |-> "equity_quote", symbol |-> symbol, date |-> date,
                 time |-> time, raised |-> "none",
                 result |-> IF <<symbol, 1, date, time>> \in DOMAIN equity_data
                            THEN {equity_data[<<symbol, 1, date, time>>]} ELSE {}]
    /\ UNCHANGED <<options_data, available_strikes, expiry_type_map, n_quotes, atm,
                   loaderVars, expiryVars, resample, serviceVars>>

\* DataAccessor.get_all_weekly_expiries(underlying, date) and
\* get_all_monthly_expiries(underlying, date)
GetAllExpiries(expiry_type, underlying, date) ==
    /\ ~atm.called
    /\ query.kind = "none"
    /\ query' = [kind |-> "expiries", expiry_type |-> expiry_type,
                 underlying |-> underlying, date |-> date, raised |-> "none",
                 result |-> IF <<underlying, date, expiry_type>> \in DOMAIN available_expiries
                            THEN available_expiries[<<underlying, date, expiry_type>>]
                            ELSE <<>>]
    /\ UNCHANGED <<options_data, available_strikes, expiry_type_map, n_quotes, atm,
                   loaderVars, expiryVars, resample, serviceVars>>

AccessorNext ==
    \/ \E underlying \in ChainUnderlyings, expiry \in ChainExpiries, strike \in Strikes,
          opt_type \in OptionTypes, date \in ChainDates, time \in ChainTimes, bar \in Bars :
            PutOptionQuote(underlying, expiry, strike, opt_type, date, time, bar)
    \/ \E underlying \in QueryUnderlyings : PopulateExpiryTypeMap(underlying)
    \/ \E underlying \in QueryUnderlyings, expiry \in ChainExpiries, date \in QueryDates,
          time \in QueryTimes, expiry_type \in QueryExpiryTypes :
            GetOptionChain(underlying, expiry, date, time, expiry_type)

SpecAccessor == ChainInit /\ [][AccessorNext]_vars

(***************************************************************************)
(* get_option_chain's claims.                                              *)
(***************************************************************************)
\* the quotes the store holds for the option (underlying, expiry, strike,
\* opt_type) at (timeframe 1, date, time), under whichever expiry type
StoredOption(underlying, expiry, strike, opt_type, date, time) ==
    {options_data[p] :
       p \in {x \in DOMAIN options_data :
                /\ x[1] = underlying /\ x[3] = expiry /\ x[4] = strike
                /\ x[5] = opt_type /\ x[6] = 1 /\ x[7] = date /\ x[8] = time}}

\* the chain returned holds the leg for the strike
HasLeg(chain, strike, opt_type) ==
    /\ strike \in DOMAIN chain
    /\ opt_type \in DOMAIN chain[strike]

\* C11: get_option_chain(underlying, expiry, date, time) raises nothing, and for
\* each strike known for (underlying, expiry, date) its result holds the CE leg
\* exactly when the store holds a CE quote at (timeframe 1, date, time) and the PE
\* leg exactly when it holds a PE quote there, a leg held being the stored quote
\* and a missing leg being left out.
C11_ChainLegs ==
    (query.kind = "chain" /\ query.expiry_type = "None") =>
        /\ query.raised = "none"
        /\ \A strike \in KnownStrikes(query.underlying, query.expiry, query.date) :
             \A opt_type \in OptionTypes :
                LET stored == StoredOption(query.underlying, query.expiry, strike,
                                           opt_type, query.date, query.time)
                IN  /\ HasLeg(query.result, strike, opt_type) <=> stored # {}
                    /\ HasLeg(query.result, strike, opt_type) =>
                          query.result[strike][opt_type] \in stored

\* C11's case: the chain returned holds, for a known strike, the CE leg and no PE
\* leg, and holds both legs for another.
C11_Witness ==
    /\ query.kind = "chain"
    /\ query.expiry_type = "None"
    /\ \E s1, s2 \in KnownStrikes(query.underlying, query.expiry, query.date) :
          /\ HasLeg(query.result, s1, "CE")
          /\ ~HasLeg(query.result, s1, "PE")
          /\ HasLeg(query.result, s2, "CE")
          /\ HasLeg(query.result, s2, "PE")

(***************************************************************************)
(* The read queries together: the accessor's getters over the option store *)
(* and the strategy execution's scan of the quote store, each from every   *)
(* state a load of a few quotes leaves.                                    *)
(***************************************************************************)
MaxQueryQuotes == 1

QueriesInit ==
    /\ \E dates \in SUBSET {180101} : Loaded(dates)
    /\ ExpiryIdle
    /\ ResampleIdle
    /\ ChainIdle
    /\ indicators = [sma |-> EmptyMap, computations |-> 0]
    /\ server = [running |-> TRUE]
    /\ readers = [r \in Readers |-> [pc |-> "idle"]]
    /\ conversion = [pc |-> "idle"]

QueriesNext ==
    \/ \E underlying \in ChainUnderlyings, expiry \in ChainExpiries, strike \in Strikes,
          opt_type \in OptionTypes, date \in ChainDates, time \in ChainTimes, bar \in Bars :
            /\ n_quotes < MaxQueryQuotes
            /\ PutOptionQuote(underlying, expiry, strike, opt_type, date, time, bar)
    \/ \E underlying \in QueryUnderlyings : PopulateExpiryTypeMap(underlying)
    \/ \E underlying \in QueryUnderlyings, expiry \in ChainExpiries, strike \in Strikes,
          option_type \in OptionTypes, date \in QueryDates, time \in ChainTimes :
            GetOptionQuote(underlying, expiry, strike, option_type, date, time, "None")
    \/ \E underlying \in QueryUnderlyings, expiry \in ChainExpiries, date \in QueryDates,
          time \in QueryTimes, expiry_type \in QueryExpiryTypes :
            GetOptionChain(underlying, expiry, date, time, expiry_type)
    \/ \E underlying \in QueryUnderlyings, spot_price \in SpotPrices, date \in QueryDates,
          expiry \in ChainExpiries, expiry_type \in QueryExpiryTypes :
            GetAtmStrike(underlying, spot_price, date, expiry, expiry_type)
    \/ \E underlying \in QueryUnderlyings, date \in QueryDates :
            GetEquityQuote(underlying, date, 34200)
    \/ \E expiry_type \in {"WEEKLY", "MONTHLY"}, underlying \in QueryUnderlyings,
          date \in QueryDates :
            GetAllExpiries(expiry_type, underlying, date)
    \/ \E r \in {"r1"} : ReceiveRequest(r, TRUE)
    \/ \E r \in Readers : StartExicution(r)

SpecQueries == QueriesInit /\ [][QueriesNext]_vars

\* a getter of the accessor has returned, or a thread has gone through the store
QueryStep ==
    \/ query' # query
    \/ atm' # atm
    \/ \E r \in Readers : readers[r].pc = "start_exicution" /\ readers'[r].pc = "responded"

\* C18: a step of get_option_quote, get_equity_quote, get_option_chain,
\* get_atm_strike, get_all_weekly_expiries, get_all_monthly_expiries or of the
\* strategy execution's scan leaves the quote store, the option store and its
\* strike index, the expiry type map and the available dates as they were,
\* whether it found what it looked for or not.
C18_QueriesChangeNothing ==
    [][QueryStep =>
          /\ quote_data' = quote_data
          /\ available_dates' = available_dates
          /\ contracts' = contracts
          /\ options_data' = options_data
          /\ available_strikes' = available_strikes
          /\ expiry_type_map' = expiry_type_map]_vars

\* C18's case: a getter was asked for an option quote the store holds and found
\* it, with the type of the expiry not in the map, and a thread has gone through
\* a quote store that holds a quote.
C18_Witness ==
    /\ query.kind = "option_quote"
    /\ query.result # {}
    /\ DOMAIN expiry_type_map = {}
    /\ readers["r1"].pc = "responded"
    /\ readers["r1"].seen # {}

(***************************************************************************)
(* The time conversions (commons/utils.py, lines 20-37). A string is the   *)
(* sequence of its characters, and a time string the sequence of the       *)
(* fields time_str.split(':') gives. A run starts from a time string, as   *)
(* Sample_strategy.__init__ receives entry_time and exit_time, or from a   *)
(* number of seconds, and applies one conversion and then the other.       *)
(***************************************************************************)
Digits == <<"0", "1", "2", "3", "4", "5", "6", "7", "8", "9">>

IsDigit(ch) == \E d \in 0..9 : Digits[d + 1] = ch
DigitValue(ch) == CHOOSE d \in 0..9 : Digits[d + 1] = ch

\* the digits of a field after its sign, if it has one
Unsigned(text) ==
    IF text # <<>> /\ Head(text) \in {"-", "+"} THEN Tail(text) ELSE text

\* int(text) returns: text is an optional sign and then one digit or more
IntAccepts(text) ==
    /\ Unsigned(text) # <<>>
    /\ \A i \in DOMAIN Unsigned(text) : IsDigit(Unsigned(text)[i])

RECURSIVE DigitsValue(_)
DigitsValue(digits) ==
    IF digits = <<>> THEN 0
    ELSE DigitsValue(SubSeq(digits, 1, Len(digits) - 1)) * 10
         + DigitValue(digits[Len(digits)])

\* int(text) when it returns
int(text) ==
    IF Head(text) = "-" THEN 0 - DigitsValue(Unsigned(text))
    ELSE DigitsValue(Unsigned(text))

\* the decimal digits of a natural number
RECURSIVE DigitsOf(_)
DigitsOf(n) ==
    IF n < 10 THEN <<Digits[n + 1]>>
    ELSE DigitsOf(n \div 10) \o <<Digits[(n % 10) + 1]>>

\* f"{n:02d}": the sign of a negative number, then its digits, with zeros put
\* before the digits until the whole is two characters wide
Format02d(n) ==
    IF n < 0 THEN <<"-">> \o DigitsOf(0 - n)
    ELSE IF n < 10 THEN <<"0">> \o DigitsOf(n)
    ELSE DigitsOf(n)

\* hms_to_seconds(time_str), lines 20-28: the unpacking of line 21 raises
\* ValueError unless there are three fields, and int() unless each is a number
hms_to_seconds(time_str) ==
    IF Len(time_str) # 3 \/ \E i \in DOMAIN time_str : ~IntAccepts(time_str[i])
    THEN [raised |-> "ValueError", value |-> None]
    ELSE LET hours == int(time_str[1])
             minutes == int(time_str[2])
             seconds == int(time_str[3])
         IN  IF hours > 24 THEN [raised |-> "ValueError", value |-> None]
             ELSE IF minutes > 59 THEN [raised |-> "ValueError", value |-> None]
             ELSE IF seconds > 59 THEN [raised |-> "ValueError", value |-> None]
             ELSE [raised |-> "none", value |-> (hours * 3600) + minutes * 60 + seconds]

\* seconds_to_hms(seconds), lines 31-37; // and % round towards minus infinity,
\* as \div and % do
seconds_to_hms(seconds) ==
    IF seconds > 86399 THEN [raised |-> "ValueError", value |-> <<>>]
    ELSE LET hours == seconds \div 3600
             minutes == (seconds % 3600) \div 60
             secs == seconds % 60
         IN  [raised |-> "none",
              value |-> <<Format02d(hours), Format02d(minutes), Format02d(secs)>>]

\* the fields a time string may be made of
TimeFields ==
    {<<"0">>, <<"0", "0">>, <<"9">>, <<"0", "9">>, <<"2", "3">>, <<"2", "4">>,
     <<"2", "5">>, <<"5", "9">>, <<"6", "0">>, <<"-", "1">>, <<"x">>}
\* the time strings of two and of three fields
TimeStrings == [1..2 -> TimeFields] \cup [1..3 -> TimeFields]
\* the numbers of seconds a run may start from
SecondsGiven == {-1, 0, 1, 59, 60, 3599, 3600, 33300, 86399, 86400}

ConversionInit ==
    /\ LoaderInit
    /\ ExpiryIdle
    /\ ResampleIdle
    /\ ChainIdle
    /\ indicators = [sma |-> EmptyMap, computations |-> 0]
    /\ server = [running |-> FALSE]
    /\ readers = [r \in Readers |-> [pc |-> "idle"]]
    /\ \/ \E time_str \in TimeStrings :
            conversion = [pc |-> "string", given |-> "string", time_str |-> time_str,
                          n |-> None, seconds |-> None, hms |-> <<>>]
       \/ \E n \in SecondsGiven :
            conversion = [pc |-> "seconds", given |-> "seconds", time_str |-> <<>>,
                          n |-> n, seconds |-> None, hms |-> <<>>]

\* hms_to_seconds is called: on the string given, or on the string
\* seconds_to_hms returned
HmsToSeconds ==
    /\ \/ conversion.pc = "string" /\ conversion.given = "string"
       \/ conversion.pc = "hms" /\ conversion.given = "seconds"
    /\ LET time_str == IF conversion.given = "string" THEN conversion.time_str
                       ELSE conversion.hms
           r == hms_to_seconds(time_str)
       IN  conversion' =
             IF r.raised # "none"
             THEN [conversion EXCEPT !.pc = "ValueError"]
             ELSE IF conversion.given = "string"
             THEN [conversion EXCEPT !.pc = "seconds", !.seconds = r.value]
             ELSE [conversion EXCEPT !.pc = "done", !.seconds = r.value]
    /\ UNCHANGED <<indicators, server, readers, loaderVars, expiryVars, resample, chainVars>>

\* seconds_to_hms is called: on the number given, or on the number
\* hms_to_seconds returned
SecondsToHms ==
    /\ conversion.pc = "seconds"
    /\ LET r == seconds_to_hms(IF conversion.given = "string" THEN conversion.seconds
                               ELSE conversion.n)
       IN  conversion' =
             IF r.raised # "none"
             THEN [conversion EXCEPT !.pc = "ValueError"]
             ELSE IF conversion.given = "string"
             THEN [conversion EXCEPT !.pc = "done", !.hms = r.value]
             ELSE [conversion EXCEPT !.pc = "hms", !.hms = r.value]
    /\ UNCHANGED <<indicators, server, readers, loaderVars, expiryVars, resample, chainVars>>

ConversionNext ==
    \/ HmsToSeconds
    \/ SecondsToHms

SpecConversion == ConversionInit /\ [][ConversionNext]_vars

\* C21, as stated: for every time string hms_to_seconds accepts, the value it
\* returns lies in 0..86399, and seconds_to_hms applied to that value succeeds
\* and gives back the same hours, minutes and seconds; and for every n in
\* 0..86399, hms_to_seconds(seconds_to_hms(n)) = n.
C21_RoundTrip ==
    /\ (conversion.given = "string" /\ conversion.pc \in {"seconds", "done"}) =>
           conversion.seconds \in 0..86399
    /\ (conversion.given = "string" /\ conversion.pc = "seconds") =>
           seconds_to_hms(conversion.seconds).raised = "none"
    /\ (conversion.given = "string" /\ conversion.pc = "done") =>
           \A i \in 1..3 : int(conversion.hms[i]) = int(conversion.time_str[i])
    /\ (conversion.given = "seconds" /\ conversion.n \in 0..86399) =>
           /\ conversion.pc # "ValueError"
           /\ conversion.pc = "done" => conversion.seconds = conversion.n

====
